---- MODULE Spec2Model ----
(***************************************************************************)
(* Model of photos_creation_date_overwrite/__main__.py: the batch driver   *)
(* main(), the filename date extraction, the EXIF date read and the EXIF   *)
(* date update, over a small file system of input and output files.        *)
(***************************************************************************)
EXTENDS Integers, Sequences, FiniteSets, TLC

VARIABLES
    pc,                 \* position of main(): "start", "loop", "done", "aborted"
    fs,                 \* the file system: path -> content, path = <<dir, name>>
    fs0,                \* the file system as it was when main() started
    dirs,               \* the directories that exist
    jpg_files,          \* main's list of input file names, in processing order
    idx,                \* index in jpg_files of the next file of the for loop
    report,             \* the UpdateReport counters
    printed,            \* what main has printed: "NoFiles", "Report"
    log,                \* one entry per completed loop iteration
    writeLog,           \* every file write done by the run, in order
    globCaseSensitive,  \* platform: Path.glob matches case-sensitively (POSIX) or not (Windows)
    strftimePadsYear,   \* platform: strftime('%Y') zero-pads to 4 digits or not (glibc)
    fname,              \* SpecExtract: the filename handed to _extract_date_from_filename
    fresult             \* SpecExtract: what the call produced

vars == <<pc, fs, fs0, dirs, jpg_files, idx, report, printed, log, writeLog,
          globCaseSensitive, strftimePadsYear, fname, fresult>>

(***************************************************************************)
(* Bounds                                                                  *)
(***************************************************************************)
MaxFiles == 2

(***************************************************************************)
(* Characters and numbers                                                  *)
(***************************************************************************)
DigitChars == <<"0", "1", "2", "3", "4", "5", "6", "7", "8", "9">>

Digit == {DigitChars[i] : i \in 1..10}

DigitVal(c) == (CHOOSE i \in 1..10 : DigitChars[i] = c) - 1

IsDigitAt(s, pos) == pos >= 1 /\ pos <= Len(s) /\ s[pos] \in Digit

\* int() of the len digits of s starting at pos
RECURSIVE NumAt(_, _, _)
NumAt(s, pos, len) ==
    IF len = 0 THEN 0
    ELSE NumAt(s, pos, len - 1) * 10 + DigitVal(s[pos + len - 1])

AllDigitsAt(s, pos, len) == \A k \in 0..(len - 1) : IsDigitAt(s, pos + k)

\* str() of a natural number
RECURSIVE DecStr(_)
DecStr(n) ==
    IF n < 10 THEN <<DigitChars[n + 1]>>
    ELSE Append(DecStr(n \div 10), DigitChars[(n % 10) + 1])

RECURSIVE ZeroPad(_, _)
ZeroPad(s, width) == IF Len(s) >= width THEN s ELSE ZeroPad(<<"0">> \o s, width)

(***************************************************************************)
(* datetime values.  None and the raised ValueError share the record shape *)
(* of a datetime so that results can be compared.                          *)
(***************************************************************************)
DateTime(Y, m, d, H, M, S) ==
    [kind |-> "datetime", year |-> Y, month |-> m, day |-> d,
     hour |-> H, minute |-> M, second |-> S]

None == [kind |-> "None", year |-> 0, month |-> 0, day |-> 0,
         hour |-> 0, minute |-> 0, second |-> 0]

Raised == [kind |-> "Exception", year |-> 0, month |-> 0, day |-> 0,
           hour |-> 0, minute |-> 0, second |-> 0]

\* datetime.date(): the calendar day of a datetime
DateOf(dt) == <<dt.year, dt.month, dt.day>>

IsLeap(y) == (y % 4 = 0 /\ y % 100 # 0) \/ y % 400 = 0

DaysInMonth(y, m) ==
    IF m = 2 THEN (IF IsLeap(y) THEN 29 ELSE 28)
    ELSE IF m \in {4, 6, 9, 11} THEN 30 ELSE 31

(***************************************************************************)
(* datetime.strptime.  The format is turned into a regular expression, one *)
(* group per directive, matched at the start of the string with            *)
(* backtracking over the alternatives of each group in their order; a      *)
(* match that does not end at the end of the string, or whose numbers are  *)
(* not a date, raises ValueError.                                          *)
(***************************************************************************)
FmtYmd == <<"Y", "m", "d">>

FmtExif == <<"Y", ":", "m", ":", "d", " ", "H", ":", "M", ":", "S">>

NoMatch == [ok |-> FALSE, end |-> 0,
            val |-> [Y |-> 0, m |-> 0, d |-> 0, H |-> 0, M |-> 0, S |-> 0]]

\* the two-character values each directive's group accepts
TwoDigitOk(dir, n) ==
    CASE dir = "m" -> n >= 1 /\ n <= 12
      [] dir = "d" -> n >= 1 /\ n <= 31
      [] dir = "H" -> n <= 23
      [] dir = "M" -> n <= 59
      [] dir = "S" -> n <= 61
      [] OTHER -> FALSE

\* the one-character values each directive's group accepts
OneDigitOk(dir, n) ==
    CASE dir \in {"m", "d"} -> n >= 1
      [] dir \in {"H", "M", "S"} -> TRUE
      [] OTHER -> FALSE

\* the alternatives of a directive's group that match s at pos, in regex order
Alternatives(dir, s, pos) ==
    IF dir = "Y"
    THEN IF AllDigitsAt(s, pos, 4) THEN <<[len |-> 4, val |-> NumAt(s, pos, 4)]>> ELSE <<>>
    ELSE (IF AllDigitsAt(s, pos, 2) /\ TwoDigitOk(dir, NumAt(s, pos, 2))
          THEN <<[len |-> 2, val |-> NumAt(s, pos, 2)]>> ELSE <<>>)
         \o
         (IF IsDigitAt(s, pos) /\ OneDigitOk(dir, NumAt(s, pos, 1))
          THEN <<[len |-> 1, val |-> NumAt(s, pos, 1)]>> ELSE <<>>)
         \o
         (IF dir = "d" /\ pos + 1 <= Len(s) /\ s[pos] = " "
             /\ IsDigitAt(s, pos + 1) /\ NumAt(s, pos + 1, 1) >= 1
          THEN <<[len |-> 2, val |-> NumAt(s, pos + 1, 1)]>> ELSE <<>>)

\* length of the run of spaces of s starting at pos
RECURSIVE SpaceRun(_, _)
SpaceRun(s, pos) ==
    IF pos <= Len(s) /\ s[pos] = " " THEN 1 + SpaceRun(s, pos + 1) ELSE 0

RECURSIVE Match(_, _, _, _)
RECURSIVE TryAlts(_, _, _, _, _, _)
Match(fmt, i, s, pos) ==
    IF i > Len(fmt)
    THEN [ok |-> TRUE, end |-> pos,
          val |-> [Y |-> 1900, m |-> 1, d |-> 1, H |-> 0, M |-> 0, S |-> 0]]
    ELSE IF fmt[i] = ":"
    THEN IF pos <= Len(s) /\ s[pos] = ":" THEN Match(fmt, i + 1, s, pos + 1) ELSE NoMatch
    ELSE IF fmt[i] = " "
    \* a space of the format is \s+; no directive used here starts with a
    \* space, so only the whole run can lead to a match
    THEN IF SpaceRun(s, pos) >= 1 THEN Match(fmt, i + 1, s, pos + SpaceRun(s, pos)) ELSE NoMatch
    ELSE TryAlts(fmt, i, s, pos, Alternatives(fmt[i], s, pos), 1)

TryAlts(fmt, i, s, pos, alts, k) ==
    IF k > Len(alts) THEN NoMatch
    ELSE LET r == Match(fmt, i + 1, s, pos + alts[k].len)
         IN  IF r.ok THEN [r EXCEPT !.val[fmt[i]] = alts[k].val]
             ELSE TryAlts(fmt, i, s, pos, alts, k + 1)

Strptime(s, fmt) ==
    LET r == Match(fmt, 1, s, 1)
        v == r.val
    IN  IF ~r.ok THEN Raised                            \* does not match format
        ELSE IF r.end # Len(s) + 1 THEN Raised          \* unconverted data remains
        ELSE IF v.Y < 1 \/ v.d > DaysInMonth(v.Y, v.m) \/ v.S > 59 THEN Raised
        ELSE DateTime(v.Y, v.m, v.d, v.H, v.M, v.S)

(***************************************************************************)
(* new_date.strftime('%Y:%m:%d 09:00:00').  %m and %d are two digits; %Y   *)
(* is the C library's: four digits zero-padded, or the bare number.        *)
(***************************************************************************)
Strftime0900(dt, padsYear) ==
    (IF padsYear THEN ZeroPad(DecStr(dt.year), 4) ELSE DecStr(dt.year))
    \o <<":">> \o ZeroPad(DecStr(dt.month), 2)
    \o <<":">> \o ZeroPad(DecStr(dt.day), 2)
    \o <<" ", "0", "9", ":", "0", "0", ":", "0", "0">>

(***************************************************************************)
(* _extract_date_from_filename                                             *)
(***************************************************************************)
Seps == {"-", "_"}

\* the pattern IMG[-_](\d{8})[-_] matches filename at position i
PatternMatchesAt(filename, i) ==
    /\ i >= 1
    /\ i + 12 <= Len(filename)
    /\ filename[i] = "I" /\ filename[i + 1] = "M" /\ filename[i + 2] = "G"
    /\ filename[i + 3] \in Seps
    /\ AllDigitsAt(filename, i + 4, 8)
    /\ filename[i + 12] \in Seps

\* re.search: the leftmost match; group(1) is the 8 digits
ReSearch(filename) ==
    LET hits == {i \in 1..Len(filename) : PatternMatchesAt(filename, i)}
    IN  IF hits = {} THEN [found |-> FALSE, group1 |-> <<>>]
        ELSE LET i == CHOOSE h \in hits : \A g \in hits : h <= g
             IN  [found |-> TRUE, group1 |-> SubSeq(filename, i + 4, i + 11)]

ExtractDateFromFilename(filename) ==
    LET match == ReSearch(filename)
    IN  IF match.found THEN Strptime(match.group1, FmtYmd) ELSE None

(***************************************************************************)
(* The file system.  A path is <<directory, file name>>; a file's content  *)
(* is its image data and its EXIF block.  A field of the EXIF block is     *)
(* absent or holds a byte string.                                          *)
(***************************************************************************)
InputDir == "input"

OutputSubdir == "output/timestamp"

Absent == [present |-> FALSE, bytes |-> <<>>]

Bytes(b) == [present |-> TRUE, bytes |-> b]

\* a byte that is not valid UTF-8
BadByte == "\\xff"

ExifBlock(dto, dtd, dt) ==
    [loadable |-> TRUE,
     Exif |-> [DateTimeOriginal |-> dto, DateTimeDigitized |-> dtd],
     zeroth |-> [DateTime |-> dt]]

\* a block piexif.load cannot parse
CorruptBlock ==
    [loadable |-> FALSE,
     Exif |-> [DateTimeOriginal |-> Absent, DateTimeDigitized |-> Absent],
     zeroth |-> [DateTime |-> Absent]]

\* what a write interrupted by an I/O error leaves behind
TruncatedContent == [img |-> <<"truncated">>, exif |-> CorruptBlock]

\* shutil.copy2(src, dst)
Copy2(fsys, src, dst) == (dst :> fsys[src]) @@ fsys

\* piexif.load(path): the dictionary of the file's EXIF block, or an exception
PiexifLoad(fsys, path) ==
    IF fsys[path].exif.loadable
    THEN [ok |-> TRUE, dict |-> fsys[path].exif]
    ELSE [ok |-> FALSE, dict |-> CorruptBlock]

\* bytes.decode('utf-8')
Decode(b) == IF \E k \in 1..Len(b) : b[k] = BadByte
             THEN [ok |-> FALSE, str |-> <<>>] ELSE [ok |-> TRUE, str |-> b]

(***************************************************************************)
(* _get_exif_date                                                          *)
(***************************************************************************)
\* the body of the try block: Raised stands for any exception raised in it
GetExifDateTry(fsys, image_path) ==
    LET loaded == PiexifLoad(fsys, image_path)
        exif_dict == loaded.dict
        ParseField(field) ==
            LET date_str == Decode(field.bytes)
            IN  IF date_str.ok THEN Strptime(date_str.str, FmtExif) ELSE Raised
    IN  IF ~loaded.ok THEN Raised
        ELSE IF "Exif" \notin DOMAIN exif_dict THEN None
        ELSE IF exif_dict.Exif.DateTimeOriginal.present
        THEN ParseField(exif_dict.Exif.DateTimeOriginal)
        ELSE IF "zeroth" \in DOMAIN exif_dict /\ exif_dict.zeroth.DateTime.present
        THEN ParseField(exif_dict.zeroth.DateTime)
        ELSE None

\* the function without its try/except
GetExifDateNoCatch(fsys, image_path) == GetExifDateTry(fsys, image_path)

\* except Exception: print, return None
GetExifDate(fsys, image_path) ==
    LET r == GetExifDateTry(fsys, image_path)
    IN  IF r = Raised THEN None ELSE r

(***************************************************************************)
(* _update_exif_date.  fault is where the environment makes the call fail: *)
(* "none", "dump" (piexif.dump rejects the dictionary), "insert" (insert   *)
(* fails before it writes) or "insert_partial" (the write of the output    *)
(* file is interrupted).                                                   *)
(***************************************************************************)
Faults == {"none", "dump", "insert", "insert_partial"}

\* insert called without new_file: the image itself is rewritten
InsertInPlace(image_path, output_path) == image_path

\* the file piexif.insert(exif_bytes, image, new_file) writes
InsertTarget(image_path, output_path) == output_path

UpdateExifDate(fsys, image_path, new_date, output_path, fault, padsYear) ==
    LET loaded == PiexifLoad(fsys, image_path)
        date_str == Strftime0900(new_date, padsYear)
        exif_dict == [loaded.dict EXCEPT
                        !.Exif.DateTimeOriginal = Bytes(date_str),
                        !.zeroth.DateTime = Bytes(date_str),
                        !.Exif.DateTimeDigitized = Bytes(date_str)]
        target == InsertTarget(image_path, output_path)
    IN  IF ~loaded.ok \/ fault \in {"dump", "insert"}
        THEN [ok |-> FALSE, fs |-> fsys, writes |-> <<>>]
        ELSE IF fault = "insert_partial"
        THEN [ok |-> FALSE,
              fs |-> (target :> TruncatedContent) @@ fsys,
              writes |-> <<[path |-> target, kind |-> "partial"]>>]
        ELSE [ok |-> TRUE,
              fs |-> (target :> [img |-> fsys[image_path].img, exif |-> exif_dict]) @@ fsys,
              writes |-> <<[path |-> target, kind |-> "insert"]>>]

(***************************************************************************)
(* _read_files                                                             *)
(***************************************************************************)
UpperChars == <<"J", "P", "E", "G", "I", "M">>

LowerChars == <<"j", "p", "e", "g", "i", "m">>

\* normcase of one character
Lower(c) == IF \E k \in 1..Len(UpperChars) : UpperChars[k] = c
            THEN LowerChars[CHOOSE k \in 1..Len(UpperChars) : UpperChars[k] = c]
            ELSE c

LowerStr(s) == [k \in 1..Len(s) |-> Lower(s[k])]

\* the name matches the pattern '*' + suffix
FnMatch(name, suffix, caseSensitive) ==
    /\ Len(name) >= Len(suffix)
    /\ LET tail == SubSeq(name, Len(name) - Len(suffix) + 1, Len(name))
       IN  IF caseSensitive THEN tail = suffix ELSE LowerStr(tail) = LowerStr(suffix)

GlobPatterns == << <<".", "j", "p", "g">>, <<".", "J", "P", "G">>,
                   <<".", "j", "p", "e", "g">>, <<".", "J", "P", "E", "G">> >>

\* the orders in which a scan of the directory can yield the names of S
Orderings(S) ==
    {s \in [1..Cardinality(S) -> S] : \A i, j \in 1..Cardinality(S) : i # j => s[i] # s[j]}

\* the names of the input directory, in each order a scan can yield them
Scans(fsys) == Orderings({p[2] : p \in {q \in DOMAIN fsys : q[1] = InputDir}})

\* INPUT_DIR.glob('*' + suffix): the names of the scan that match, in its order
Glob(scan, suffix, caseSensitive) ==
    SelectSeq(scan, LAMBDA name : FnMatch(name, suffix, caseSensitive))

\* the lists _read_files can return: the four globs, concatenated
ReadFiles(fsys, caseSensitive) ==
    {Glob(scan, GlobPatterns[1], caseSensitive) \o Glob(scan, GlobPatterns[2], caseSensitive)
       \o Glob(scan, GlobPatterns[3], caseSensitive) \o Glob(scan, GlobPatterns[4], caseSensitive) :
        scan \in Scans(fsys)}

(***************************************************************************)
(* The input directories of the model                                      *)
(***************************************************************************)
NameWA29 == <<"I", "M", "G", "-", "2", "0", "2", "0", "1", "1", "0", "7", "-", "a", ".", "j", "p", "g">>

NameWA30 == <<"I", "M", "G", "_", "2", "0", "2", "0", "1", "1", "0", "7", "_", "b", ".", "J", "P", "G">>

NameRandom == <<"p", "i", "c", ".", "j", "p", "e", "g">>

NameBadMonth == <<"I", "M", "G", "-", "2", "0", "2", "0", "1", "3", "9", "9", "-", "c", ".", "j", "p", "g">>

NameYear999 == <<"I", "M", "G", "-", "0", "9", "9", "9", "0", "1", "0", "1", "-", "d", ".", "J", "P", "E", "G">>

NameText == <<"n", ".", "t", "x", "t">>

\* the EXIF text of a date and time, 'YYYY:MM:DD HH:MM:SS'
ExifStr(Y, m, d, H, M, S) ==
    ZeroPad(DecStr(Y), 4) \o <<":">> \o ZeroPad(DecStr(m), 2) \o <<":">> \o ZeroPad(DecStr(d), 2)
    \o <<" ">> \o ZeroPad(DecStr(H), 2) \o <<":">> \o ZeroPad(DecStr(M), 2)
    \o <<":">> \o ZeroPad(DecStr(S), 2)

BlankDateStr == <<" ", " ", " ", " ", ":", " ", " ", ":", " ", " ", " ", " ", " ", ":", " ", " ", ":", " ", " ">>

MetaNoDates == ExifBlock(Absent, Absent, Absent)

MetaSameDay == ExifBlock(Bytes(ExifStr(2020, 11, 7, 14, 22, 1)), Absent, Absent)

MetaOtherDay == ExifBlock(Bytes(ExifStr(2019, 1, 1, 0, 0, 0)), Absent, Absent)

MetaOnlyDateTime == ExifBlock(Absent, Absent, Bytes(ExifStr(2020, 11, 7, 23, 59, 59)))

MetaBlankOriginal == ExifBlock(Bytes(BlankDateStr), Absent, Bytes(ExifStr(2020, 11, 7, 14, 22, 1)))

MetaBothDiffer ==
    ExifBlock(Bytes(ExifStr(2019, 1, 1, 0, 0, 0)), Absent, Bytes(ExifStr(2020, 11, 7, 14, 22, 1)))

MetaBadBytes == ExifBlock(Bytes(<<BadByte, "2", "0">>), Absent, Absent)

File(name, exif) == [name |-> name, exif |-> exif]

Candidates ==
    {File(NameWA29, m) : m \in {CorruptBlock, MetaNoDates, MetaSameDay, MetaOtherDay,
                                MetaOnlyDateTime, MetaBlankOriginal, MetaBothDiffer,
                                MetaBadBytes}}
    \cup {File(NameWA30, m) : m \in {MetaNoDates, MetaSameDay, MetaOtherDay}}
    \cup {File(NameYear999, m) : m \in {MetaNoDates, MetaOtherDay}}
    \cup {File(NameRandom, MetaOtherDay), File(NameBadMonth, MetaNoDates),
          File(NameText, CorruptBlock)}

\* the directories of at most MaxFiles files, no two of the same name
InputDirs ==
    {S \in SUBSET Candidates :
        /\ Cardinality(S) <= MaxFiles
        /\ \A f, g \in S : f.name = g.name => f = g}

FileSystemOf(S) ==
    [p \in {<<InputDir, f.name>> : f \in S} |->
        LET f == CHOOSE g \in S : g.name = p[2]
        IN  [img |-> f.name, exif |-> f.exif]]

(***************************************************************************)
(* UpdateReport and main                                                   *)
(***************************************************************************)
NewReport == [updated |-> 0, added |-> 0, failed |-> 0, preserved |-> 0]

\* the counter incremented by two
BumpTwice(rep, counter) == [rep EXCEPT ![counter] = @ + 2]

\* report.<counter> += 1
Bump(rep, counter) == [rep EXCEPT ![counter] = @ + 1]

\* the emptiness test left out
IsEmptyNever(files) == FALSE

\* if not jpg_files
IsEmpty(files) == Len(files) = 0

\* the datetimes compared whole, time of day included
DatesMatchExact(filename_date, exif_date) == filename_date = exif_date

\* filename_date.date() == exif_date.date()
DatesMatch(filename_date, exif_date) == DateOf(filename_date) = DateOf(exif_date)

\* the failure branches without their copy
NoFallbackCopy(fsys, image_path, output_path) == fsys

\* what the failure branches of main do with the file: copy the original
FallbackCopy(fsys, image_path, output_path) == Copy2(fsys, image_path, output_path)

Stamp(writes, by) == [k \in 1..Len(writes) |-> [path |-> writes[k].path, kind |-> writes[k].kind, by |-> by]]

CopyWrite(output_path, by) == <<[path |-> output_path, kind |-> "copy", by |-> by]>>

LogEntry(name, action, ok, exifRead) ==
    [name |-> name, action |-> action, ok |-> ok, exifRead |-> exifRead]

ImagePath(name) == <<InputDir, name>>

OutputPath(name) == <<OutputSubdir, name>>

NoExtract == <<fname, fresult>>

Platform == <<globCaseSensitive, strftimePadsYear>>

\* POSIX with a C library that does not pad %Y, POSIX with one that does, Windows
Platforms == {<<TRUE, FALSE>>, <<TRUE, TRUE>>, <<FALSE, TRUE>>}

Init ==
    /\ pc = "start"
    /\ \E S \in InputDirs : fs = FileSystemOf(S)
    /\ fs0 = fs
    /\ dirs = {InputDir}
    /\ jpg_files = <<>>
    /\ idx = 1
    /\ report = NewReport
    /\ printed = <<>>
    /\ log = <<>>
    /\ writeLog = <<>>
    /\ \E pf \in Platforms : globCaseSensitive = pf[1] /\ strftimePadsYear = pf[2]
    /\ fname = <<>>
    /\ fresult = None

\* main, lines 27-30: nothing to process
MainNoFiles ==
    /\ pc = "start"
    /\ \E files \in ReadFiles(fs, globCaseSensitive) :
        /\ IsEmpty(files)
        /\ jpg_files' = files
    /\ printed' = Append(printed, "NoFiles")
    /\ pc' = "done"
    /\ UNCHANGED <<fs, fs0, dirs, idx, report, log, writeLog, Platform, NoExtract>>

\* main, lines 27-36: the output subdirectory and the report are created
MainBegin ==
    /\ pc = "start"
    /\ \E files \in ReadFiles(fs, globCaseSensitive) :
        /\ ~IsEmpty(files)
        /\ jpg_files' = files
    /\ dirs' = dirs \cup {OutputSubdir}
    /\ report' = NewReport
    /\ idx' = 1
    /\ pc' = "loop"
    /\ UNCHANGED <<fs, fs0, printed, log, writeLog, Platform, NoExtract>>

InLoop == pc = "loop" /\ idx <= Len(jpg_files)

\* an exception leaves main: nothing in main catches it
ProcessRaise ==
    /\ InLoop
    /\ LET name == jpg_files[idx]
           filename_date == ExtractDateFromFilename(name)
       IN  \/ filename_date = Raised
           \/ /\ filename_date # None
              /\ GetExifDate(fs, ImagePath(name)) = Raised
    /\ pc' = "aborted"
    /\ UNCHANGED <<fs, fs0, dirs, jpg_files, idx, report, printed, log, writeLog,
                   Platform, NoExtract>>

\* lines 43-47: no date in the filename
ProcessUnparseable ==
    /\ InLoop
    /\ LET name == jpg_files[idx]
       IN  /\ ExtractDateFromFilename(name) = None
           /\ fs' = Copy2(fs, ImagePath(name), OutputPath(name))
           /\ writeLog' = writeLog \o CopyWrite(OutputPath(name), idx)
           /\ log' = Append(log, LogEntry(name, "Unparseable", TRUE, FALSE))
    /\ idx' = idx + 1
    /\ UNCHANGED <<pc, fs0, dirs, jpg_files, report, printed, Platform, NoExtract>>

\* lines 53-60: the dates match
ProcessPreserve ==
    /\ InLoop
    /\ LET name == jpg_files[idx]
           filename_date == ExtractDateFromFilename(name)
           exif_date == GetExifDate(fs, ImagePath(name))
       IN  /\ filename_date \notin {None, Raised}
           /\ exif_date \notin {None, Raised}
           /\ DatesMatch(filename_date, exif_date)
           /\ fs' = Copy2(fs, ImagePath(name), OutputPath(name))
           /\ writeLog' = writeLog \o CopyWrite(OutputPath(name), idx)
           /\ log' = Append(log, LogEntry(name, "Preserve", TRUE, TRUE))
    /\ report' = Bump(report, "preserved")
    /\ idx' = idx + 1
    /\ UNCHANGED <<pc, fs0, dirs, jpg_files, printed, Platform, NoExtract>>

\* lines 63-69 and 72-78: update the copy, or fall back to a plain copy
UpdateOrFallback(name, filename_date, action, counter) ==
    \E fault \in Faults :
        LET r == UpdateExifDate(fs, ImagePath(name), filename_date, OutputPath(name),
                                fault, strftimePadsYear)
        IN  IF r.ok
            THEN /\ fs' = r.fs
                 /\ writeLog' = writeLog \o Stamp(r.writes, idx)
                 /\ report' = Bump(report, counter)
                 /\ log' = Append(log, LogEntry(name, action, TRUE, TRUE))
            ELSE /\ fs' = FallbackCopy(r.fs, ImagePath(name), OutputPath(name))
                 /\ writeLog' = writeLog \o Stamp(r.writes, idx)
                                         \o CopyWrite(OutputPath(name), idx)
                 /\ report' = Bump(report, "failed")
                 /\ log' = Append(log, LogEntry(name, action, FALSE, TRUE))

\* lines 61-69: the dates differ
ProcessOverwrite ==
    /\ InLoop
    /\ LET name == jpg_files[idx]
           filename_date == ExtractDateFromFilename(name)
           exif_date == GetExifDate(fs, ImagePath(name))
       IN  /\ filename_date \notin {None, Raised}
           /\ exif_date \notin {None, Raised}
           /\ ~DatesMatch(filename_date, exif_date)
           /\ UpdateOrFallback(name, filename_date, "Overwrite", "updated")
    /\ idx' = idx + 1
    /\ UNCHANGED <<pc, fs0, dirs, jpg_files, printed, Platform, NoExtract>>

\* lines 70-78: no EXIF date
ProcessAdd ==
    /\ InLoop
    /\ LET name == jpg_files[idx]
           filename_date == ExtractDateFromFilename(name)
           exif_date == GetExifDate(fs, ImagePath(name))
       IN  /\ filename_date \notin {None, Raised}
           /\ exif_date = None
           /\ UpdateOrFallback(name, filename_date, "Add", "added")
    /\ idx' = idx + 1
    /\ UNCHANGED <<pc, fs0, dirs, jpg_files, printed, Platform, NoExtract>>

\* lines 80-82: the loop is over
MainReport ==
    /\ pc = "loop"
    /\ idx > Len(jpg_files)
    /\ printed' = Append(printed, "Report")
    /\ pc' = "done"
    /\ UNCHANGED <<fs, fs0, dirs, jpg_files, idx, report, log, writeLog, Platform, NoExtract>>

Next ==
    \/ MainNoFiles
    \/ MainBegin
    \/ ProcessRaise
    \/ ProcessUnparseable
    \/ ProcessPreserve
    \/ ProcessOverwrite
    \/ ProcessAdd
    \/ MainReport

Spec == Init /\ [][Next]_vars

(***************************************************************************)
(* _extract_date_from_filename on its own: one call on one filename        *)
(***************************************************************************)
ExPrefixes == {<<>>, <<"x">>, <<"I", "M", "G", "-">>, <<"I", "M", "G", "_", "2", "0", "2", "0", "1", "3", "9", "9", "_">>, <<"I", "M", "G", "-", "2", "0", "2", "0", "1", "1", "0">>}

ExSeparators == {<<"-">>, <<"_">>, <<".">>}

ExYears == {<<"0", "0", "0", "0">>, <<"0", "9", "9", "9">>, <<"2", "0", "1", "9">>, <<"2", "0", "2", "0">>, <<"2", "0", "2">>, <<"2", "0", "2", "x">>}

ExMonths == {<<"0", "0">>, <<"0", "2">>, <<"1", "1">>, <<"1", "3">>}

ExDays == {<<"0", "0">>, <<"0", "7">>, <<"2", "9">>, <<"3", "0">>, <<"3", "1">>, <<"3", "2">>, <<"0", "7", "1">>}

ExSuffix == <<"a", ".", "j", "p", "g">>

ExNames ==
    {p \o <<"I", "M", "G">> \o s1 \o y \o m \o d \o s2 \o ExSuffix :
        p \in ExPrefixes, s1 \in ExSeparators, y \in ExYears, m \in ExMonths,
        d \in ExDays, s2 \in ExSeparators}

NotCalled == [kind |-> "NotCalled", year |-> 0, month |-> 0, day |-> 0,
              hour |-> 0, minute |-> 0, second |-> 0]

InitExtract ==
    /\ pc = "extract"
    /\ fname \in ExNames
    /\ fresult = NotCalled
    /\ fs = <<>> /\ fs0 = <<>> /\ dirs = {} /\ jpg_files = <<>> /\ idx = 1
    /\ report = NewReport /\ printed = <<>> /\ log = <<>> /\ writeLog = <<>>
    /\ globCaseSensitive = TRUE /\ strftimePadsYear = TRUE

CallExtract ==
    /\ pc = "extract"
    /\ fresult' = ExtractDateFromFilename(fname)
    /\ pc' = "extracted"
    /\ UNCHANGED <<fs, fs0, dirs, jpg_files, idx, report, printed, log, writeLog,
                   Platform, fname>>

NextExtract == CallExtract

SpecExtract == InitExtract /\ [][NextExtract]_vars

(***************************************************************************)
(* Properties                                                              *)
(***************************************************************************)
Entries == 1..Len(log)

Last(q) == q[Len(q)]

WritesTo(path) == {k \in 1..Len(writeLog) : writeLog[k].path = path}

\* C1: no error raised while one file is processed aborts the batch: the
\* run never ends on an exception that left main.
C1_NoErrorAbortsBatch == pc # "aborted"

\* the calendar date of 8 digits, or None when they are not one
CalendarDate(digits) ==
    LET Y == NumAt(digits, 1, 4)
        m == NumAt(digits, 5, 2)
        d == NumAt(digits, 7, 2)
    IN  IF Y >= 1 /\ m >= 1 /\ m <= 12 /\ d >= 1 /\ d <= DaysInMonth(Y, m)
        THEN DateTime(Y, m, d, 0, 0, 0) ELSE None

\* the date a filename encodes: that of the first occurrence of the pattern
FilenameDate(filename) ==
    IF \E i \in 1..Len(filename) : PatternMatchesAt(filename, i)
    THEN CalendarDate(ReSearch(filename).group1) ELSE None

\* the embedded date of an EXIF block: date-time original, else date-time
Parsed(field) ==
    IF Decode(field.bytes).ok /\ Strptime(field.bytes, FmtExif).kind = "datetime"
    THEN Strptime(field.bytes, FmtExif) ELSE None

EmbeddedDate(exif) ==
    IF ~exif.loadable THEN None
    ELSE IF exif.Exif.DateTimeOriginal.present THEN Parsed(exif.Exif.DateTimeOriginal)
    ELSE IF exif.zeroth.DateTime.present THEN Parsed(exif.zeroth.DateTime)
    ELSE None

\* both, tabulated over the names and the EXIF blocks of the model's files
FilenameDateOf == [n \in {f.name : f \in Candidates} |-> FilenameDate(n)]

EmbeddedDateOf == [x \in {f.exif : f \in Candidates} |-> EmbeddedDate(x)]

OriginalOf(e) == fs0[ImagePath(e.name)]

\* C2: _extract_date_from_filename returns the date of the first occurrence
\* of IMG, separator, 8 digits, separator when its digits are a calendar
\* date, and None, without raising, for every other filename.
C2_ExtractReturnsDateOrNone == pc = "extracted" => fresult = FilenameDate(fname)

\* the decision table of the reconciliation
Reconcile(filenameDate, embeddedDate) ==
    IF filenameDate = None THEN "Unparseable"
    ELSE IF embeddedDate = None THEN "Add"
    ELSE IF <<filenameDate.year, filenameDate.month, filenameDate.day>>
            = <<embeddedDate.year, embeddedDate.month, embeddedDate.day>> THEN "Preserve"
    ELSE "Overwrite"

\* C3: the action main chose for every processed file is the one of the
\* decision table; an Unparseable file is copied verbatim and its metadata
\* is never read.
C3_DecisionTable ==
    \A i \in Entries :
        LET e == log[i]
        IN  /\ e.action = Reconcile(FilenameDateOf[e.name], EmbeddedDateOf[OriginalOf(e).exif])
            /\ e.action = "Unparseable" =>
                  /\ ~e.exifRead
                  /\ fs[OutputPath(e.name)] = OriginalOf(e)

\* a Preserve whose embedded time of day is not the filename's midnight, and
\* an Overwrite, have both been chosen
C3_Witness ==
    /\ \E i \in Entries :
          /\ log[i].action = "Preserve"
          /\ EmbeddedDateOf[OriginalOf(log[i]).exif] # FilenameDateOf[log[i].name]
    /\ \E i \in Entries : log[i].action = "Overwrite"

\* C4: every processed file has been written to the output subdirectory
\* exactly once, under its own name; the copy is identical to the input for
\* Preserve, Unparseable and failed outcomes and has modified metadata for a
\* successful Add or Overwrite.
C4_CopiedExactlyOnce ==
    \A i \in Entries :
        LET e == log[i]
            out == OutputPath(e.name)
            orig == fs0[ImagePath(e.name)]
        IN  /\ Cardinality(WritesTo(out)) = 1
            /\ \A k \in WritesTo(out) : jpg_files[writeLog[k].by] = e.name
            /\ out \in DOMAIN fs
            /\ (e.action \in {"Preserve", "Unparseable"} \/ ~e.ok) => fs[out] = orig
            /\ (e.action \in {"Add", "Overwrite"} /\ e.ok) =>
                  fs[out].img = orig.img /\ fs[out].exif # orig.exif

CountOf(P(_)) == Cardinality({i \in Entries : P(log[i])})

IsPreserved(e) == e.action = "Preserve"

IsAdded(e) == e.action = "Add" /\ e.ok

IsUpdated(e) == e.action = "Overwrite" /\ e.ok

IsFailed(e) == e.action \in {"Add", "Overwrite"} /\ ~e.ok

HasFilenameDate(e) == FilenameDateOf[e.name] # None

C5_Tally ==
    /\ report.preserved = CountOf(IsPreserved)
    /\ report.added = CountOf(IsAdded)
    /\ report.updated = CountOf(IsUpdated)
    /\ report.failed = CountOf(IsFailed)
    /\ report.updated + report.added + report.failed + report.preserved
          = CountOf(HasFilenameDate)

C5_Step ==
    /\ \A c \in DOMAIN report : report'[c] >= report[c]
    /\ Len(log') = Len(log) + 1 =>
          report'.updated + report'.added + report'.failed + report'.preserved
             = report.updated + report.added + report.failed + report.preserved
               + (IF HasFilenameDate(Last(log')) THEN 1 ELSE 0)

C6_RoundTrip ==
    (Len(log) >= 1 /\ Last(log).action \in {"Add", "Overwrite"} /\ Last(log).ok) =>
        LET name == Last(log).name
            fd == ExtractDateFromFilename(name)
            out == fs[OutputPath(name)].exif
        IN  /\ GetExifDate(fs, OutputPath(name)) = DateTime(fd.year, fd.month, fd.day, 9, 0, 0)
            /\ out.Exif.DateTimeOriginal = out.Exif.DateTimeDigitized
            /\ out.Exif.DateTimeOriginal = out.zeroth.DateTime
            /\ Reconcile(fd, GetExifDate(fs, OutputPath(name))) = "Preserve"

\* C7: every input file is, at every point of the run, what it was at the
\* start, and every write of the run targets the output path of the file
\* being processed.
C7_InputsUntouched ==
    /\ \A p \in DOMAIN fs0 : p \in DOMAIN fs /\ fs[p] = fs0[p]
    /\ \A k \in 1..Len(writeLog) :
          writeLog[k].path = OutputPath(jpg_files[writeLog[k].by])

\* the run has made a plain copy, a metadata insertion and an interrupted one
C7_Witness ==
    /\ pc = "done"
    /\ \A kind \in {"copy", "insert", "partial"} :
          \E k \in 1..Len(writeLog) : writeLog[k].kind = kind

\* C8: when nothing is enumerated the run prints that no files were found
\* and is over at once: no output subdirectory, no file processed or
\* written, no report.
C8_EmptyInputEndsEarly ==
    (pc # "start" /\ jpg_files = <<>>) =>
        /\ pc = "done"
        /\ printed = <<"NoFiles">>
        /\ OutputSubdir \notin dirs
        /\ log = <<>> /\ writeLog = <<>>
        /\ fs = fs0

\* the run over a directory that holds only a file that is not a JPEG
C8_Witness == pc = "done" /\ printed = <<"NoFiles">> /\ DOMAIN fs0 # {}

C10_GetExifDateSoft ==
    /\ pc = "start" =>
          \A p \in DOMAIN fs0 :
              /\ GetExifDate(fs0, p) # Raised
              /\ GetExifDate(fs0, p) = EmbeddedDate(fs0[p].exif)
    /\ pc = "aborted" => ExtractDateFromFilename(jpg_files[idx]) = Raised
    /\ \A i \in Entries :
          (HasFilenameDate(log[i]) /\ EmbeddedDateOf[OriginalOf(log[i]).exif] = None)
             => log[i].action = "Add"

\* a file with a malformed date-time original next to a well-formed
\* date-time has been processed as Add
C10_Witness ==
    \E i \in Entries :
        /\ OriginalOf(log[i]).exif = MetaBlankOriginal
        /\ log[i].action = "Add"

====
